---- MODULE Spec2Model ----
(***************************************************************************)
(* Model of minder/types.py: the DiscordMember and DiscordChannel records, *)
(* their build / resolve / from_member / from_channel constructors and     *)
(* their mention / guild / member / channel accessors.                     *)
(*                                                                         *)
(* Python values are modelled as follows.  Objects (guilds, contexts, live *)
(* members and channels) are handles (strings) whose attributes are given  *)
(* by the operators below; None is the handle "None"; a Python bool is     *)
(* "True" / "False" so that an Optional[bool] can be compared with None.   *)
(* A record instance is [cls, dict] where dict is the instance __dict__;   *)
(* attribute lookup falls back to the class attributes, as in Python.      *)
(***************************************************************************)
EXTENDS Integers, Sequences, FiniteSets, TLC

VARIABLES last, rec, assigns

vars == <<last, rec, assigns>>

\* ------------------------------------------------------------------ bounds
\* ids range over 1..MaxId
MaxId == 2
\* at most MaxAssign attribute assignments are made to one record
MaxAssign == 1

\* ------------------------------------------------------------ Python values
None == "None"

PyBool(b) == IF b THEN "True" ELSE "False"

\* Python truthiness of None, a str or an object handle (objects of the
\* client library define neither __bool__ nor __len__, so they are truthy)
Truthy(v) == v # None /\ v # ""

Ids == 1..MaxId

\* ------------------------------------------- the directory provider's world
\* discord.Guild objects
Guilds == {"g1", "g2"}

\* commands.Context objects: one invoked in guild g1, one invoked in a direct
\* message (Context.guild is None there)
Contexts == {"ctx1", "ctxDM"}

IsContext(c) == c \in Contexts

ContextGuild(c) == IF c = "ctx1" THEN "g1" ELSE None

\* values a caller can pass as context_or_guild
Scopes == {None} \cup Guilds \cup Contexts

\* live member objects (discord.Member): id, name, guild, mention
Members == {"alice", "anon"}

MemberAttr(m) ==
    IF m = "alice"
    THEN [id |-> 1, name |-> "alice", mention |-> "<@1>", guild |-> "g1"]
    ELSE [id |-> 2, name |-> "", mention |-> "<@2>", guild |-> "g2"]

\* live channel objects: id, name, guild, mention and the runtime type
Channels == {"general", "dmbob", "blank"}

ChannelAttr(c) ==
    CASE c = "general" -> [id |-> 1, name |-> "general", mention |-> "<#1>",
                           guild |-> "g1", type |-> "TextChannel"]
      [] c = "dmbob"   -> [id |-> 2, name |-> "dm-bob", mention |-> "<#2>",
                           guild |-> None, type |-> "DMChannel"]
      [] OTHER         -> [id |-> 2, name |-> "", mention |-> "<#2>",
                           guild |-> "g2", type |-> "TextChannel"]

\* isinstance(channel, discord.DMChannel)
IsDMChannel(c) == ChannelAttr(c).type = "DMChannel"

\* failures a provider call can raise: discord.errors.NotFound or another one
Failures == {"NotFound", "Forbidden"}

\* what guild.get_member(id) can do: return the guild's member with that id,
\* return None, or raise
GetMemberOutcomes(guild, id) ==
    {[kind |-> "return", val |-> m] :
        m \in {x \in Members : MemberAttr(x).id = id /\ MemberAttr(x).guild = guild}}
    \cup {[kind |-> "return", val |-> None]}
    \cup {[kind |-> "raise", val |-> f] : f \in Failures}

\* what guild.get_channel(id) can do: return a channel with that id (one of
\* the guild, or a DM channel, which build provides for), return None, or raise
GetChannelOutcomes(guild, id) ==
    {[kind |-> "return", val |-> c] :
        c \in {x \in Channels : /\ ChannelAttr(x).id = id
                                /\ ChannelAttr(x).guild \in {guild, None}}}
    \cup {[kind |-> "return", val |-> None]}
    \cup {[kind |-> "raise", val |-> f] : f \in Failures}

\* --------------------------------------------------------------- exceptions
NoExc == [cls |-> None, msg |-> None, context |-> None,
          base_exception |-> None, chained |-> None]

\* MinderBotError(msg, context=..., base_exception=...): keeps its keyword
\* arguments.  chained is Python's implicit __context__, set by the raise site.
MinderBotError(message, ctx, ex) ==
    [cls |-> "MinderBotError", msg |-> message, context |-> ctx,
     base_exception |-> ex, chained |-> None]

\* ------------------------------------------------------------------ records
NoObj == [cls |-> None, dict |-> [id |-> 0, name |-> None]]

\* class attributes left by the dataclass decorator: the defaults of is_dm and
\* of the InitVar pseudo-fields
ClassAttr(cls, a) == None

\* attribute lookup: instance __dict__ first, then the class
getattr(o, a) == IF a \in DOMAIN o.dict THEN o.dict[a] ELSE ClassAttr(o.cls, a)

\* __init__ generated by @dataclass for DiscordMember: id and name are fields;
\* _guild and _member are InitVar pseudo-fields, accepted as parameters and
\* (there being no __post_init__) not stored on the instance
DiscordMember_init(i, n, _guild, _member) ==
    [cls |-> "DiscordMember", dict |-> [id |-> i, name |-> n]]

\* __init__ generated by @dataclass for DiscordChannel: id, name, is_dm are
\* fields; _guild and _channel are InitVar pseudo-fields and are not stored
DiscordChannel_init(i, n, dm, _guild, _channel) ==
    [cls |-> "DiscordChannel", dict |-> [id |-> i, name |-> n, is_dm |-> dm]]

\* DiscordMember.member
DiscordMember_member(o) == getattr(o, "_member")

\* DiscordChannel.channel
DiscordChannel_channel(o) == getattr(o, "_channel")

\* DiscordMember.mention
DiscordMember_mention(o) ==
    IF Truthy(getattr(o, "_member"))
    THEN MemberAttr(getattr(o, "_member")).mention
    ELSE getattr(o, "name")

\* DiscordChannel.mention
DiscordChannel_mention(o) ==
    IF Truthy(getattr(o, "_channel"))
    THEN ChannelAttr(getattr(o, "_channel")).mention
    ELSE getattr(o, "name")

\* DiscordMember.guild
DiscordMember_guild(o) ==
    IF Truthy(getattr(o, "_guild")) THEN getattr(o, "_guild")
    ELSE IF Truthy(getattr(o, "_member"))
            /\ Truthy(MemberAttr(getattr(o, "_member")).guild)
         THEN MemberAttr(getattr(o, "_member")).guild
         ELSE None

\* DiscordChannel.guild
DiscordChannel_guild(o) ==
    IF Truthy(getattr(o, "_guild")) THEN getattr(o, "_guild")
    ELSE IF Truthy(getattr(o, "_channel"))
            /\ Truthy(ChannelAttr(getattr(o, "_channel")).guild)
         THEN ChannelAttr(getattr(o, "_channel")).guild
         ELSE None

\* ------------------------------------------------------- results of a call
\* a call either returns (obj: the record built, value: what resolve returns)
\* or raises exc; calls are the provider calls it made, log its log records
Returned(o, v, cs, lg) ==
    [status |-> "return", exc |-> NoExc, obj |-> o, value |-> v,
     calls |-> cs, log |-> lg]

Raised(e, cs, lg) ==
    [status |-> "raise", exc |-> e, obj |-> NoObj, value |-> None,
     calls |-> cs, log |-> lg]

\* one provider call and what it did
Call(f, g, i, o) == [id |-> i, guild |-> g, fn |-> f, out |-> o]

\* ------------------------------------------------------------------ resolve
\* faulty variant: resolve treats every failure of the provider as "not found"
DiscordMember_resolve_swallow(id, guild, out) ==
    IF guild = None
    THEN Returned(NoObj, None, <<>>, <<"warning">>)
    ELSE Returned(NoObj, IF out.kind = "return" THEN out.val ELSE None,
                  <<Call("get_member", guild, id, out)>>,
                  IF out.kind = "return" THEN <<>> ELSE <<"warning">>)

\* DiscordMember.resolve(id, guild); out is what guild.get_member(id) does.
\* With guild None the attribute access guild.get_member raises
\* AttributeError inside the try block, before any provider call.
DiscordMember_resolve(id, guild, out) ==
    IF guild = None
    THEN Raised([MinderBotError("General error lookup up member ID", None, "AttributeError")
                    EXCEPT !.chained = "AttributeError"], <<>>, <<>>)
    ELSE LET calls == <<Call("get_member", guild, id, out)>> IN
         IF out.kind = "return"
         THEN Returned(NoObj, out.val, calls, <<>>)
         ELSE IF out.val # "NotFound"
              THEN Raised([MinderBotError("General error lookup up member ID", None, out.val)
                              EXCEPT !.chained = out.val], calls, <<>>)
              ELSE Returned(NoObj, None, calls, <<"warning">>)

\* faulty variant: resolve asks the provider again after a failure
DiscordChannel_resolve_retry(id, guild, out) ==
    IF guild = None
    THEN Raised([MinderBotError("General error lookup up channel ID", None, "AttributeError")
                    EXCEPT !.chained = "AttributeError"], <<>>, <<>>)
    ELSE LET call == Call("get_channel", guild, id, out) IN
         IF out.kind = "return"
         THEN Returned(NoObj, out.val, <<call>>, <<>>)
         ELSE IF out.val # "NotFound"
              THEN Raised([MinderBotError("General error lookup up channel ID", None, out.val)
                              EXCEPT !.chained = out.val], <<call, call>>, <<>>)
              ELSE Returned(NoObj, None, <<call, call>>, <<"warning">>)

\* DiscordChannel.resolve(id, guild); out is what guild.get_channel(id) does
DiscordChannel_resolve(id, guild, out) ==
    IF guild = None
    THEN Raised([MinderBotError("General error lookup up channel ID", None, "AttributeError")
                    EXCEPT !.chained = "AttributeError"], <<>>, <<>>)
    ELSE LET calls == <<Call("get_channel", guild, id, out)>> IN
         IF out.kind = "return"
         THEN Returned(NoObj, out.val, calls, <<>>)
         ELSE IF out.val # "NotFound"
              THEN Raised([MinderBotError("General error lookup up channel ID", None, out.val)
                              EXCEPT !.chained = out.val], calls, <<>>)
              ELSE Returned(NoObj, None, calls, <<"warning">>)

\* -------------------------------------------------------------------- build
\* guild = context_or_guild if not isinstance(context_or_guild, commands.Context)
\*         else context_or_guild.guild
ScopeGuild(context_or_guild) ==
    IF ~IsContext(context_or_guild) THEN context_or_guild
    ELSE ContextGuild(context_or_guild)

\* faulty variant: the context is not passed on to the error
FailureContextDropped(context_or_guild) == None

\* ctx = context_or_guild if isinstance(context_or_guild, commands.Context) else None
FailureContext(context_or_guild) ==
    IF IsContext(context_or_guild) THEN context_or_guild ELSE None

\* DiscordMember.build, the branch taken when context_or_guild is truthy
DiscordMember_build_lookup(id, name, context_or_guild, out) ==
    LET guild == ScopeGuild(context_or_guild)
        res == DiscordMember_resolve(id, guild, out)
        member == res.value
    IN  IF res.status = "raise" THEN res
        ELSE IF ~Truthy(name)
             THEN IF ~Truthy(member)
                  THEN Raised(MinderBotError("Failed to resolve member ID",
                                             FailureContext(context_or_guild), None),
                              res.calls, res.log)
                  ELSE Returned(DiscordMember_init(id, MemberAttr(member).name, guild, member),
                                None, res.calls, res.log)
             ELSE Returned(DiscordMember_init(id, name, guild, member),
                           None, res.calls, res.log)

\* faulty variant: build without the check that a name or a scope is given
DiscordMember_build_unchecked(id, name, context_or_guild, out) ==
    IF ~Truthy(context_or_guild)
    THEN Returned(DiscordMember_init(id, name, None, None), None, <<>>, <<>>)
    ELSE DiscordMember_build_lookup(id, name, context_or_guild, out)

\* DiscordMember.build(id, name, context_or_guild)
DiscordMember_build(id, name, context_or_guild, out) ==
    IF ~Truthy(context_or_guild)
    THEN IF ~Truthy(name)
         THEN Raised(MinderBotError("No guild/context provided", None, None), <<>>, <<>>)
         ELSE Returned(DiscordMember_init(id, name, None, None), None, <<>>, <<>>)
    ELSE DiscordMember_build_lookup(id, name, context_or_guild, out)

\* faulty variant: the live channel's type always overrides is_dm
DeriveIsDmAlways(is_dm, channel) ==
    IF Truthy(channel) THEN PyBool(IsDMChannel(channel)) ELSE is_dm

\* if is_dm is None and channel: is_dm = isinstance(channel, discord.DMChannel)
DeriveIsDm(is_dm, channel) ==
    IF is_dm = None /\ Truthy(channel) THEN PyBool(IsDMChannel(channel)) ELSE is_dm

\* DiscordChannel.build, the branch taken when context_or_guild is truthy
DiscordChannel_build_lookup(id, name, is_dm, context_or_guild, out) ==
    LET guild == ScopeGuild(context_or_guild)
        res == DiscordChannel_resolve(id, guild, out)
        channel == res.value
    IN  IF res.status = "raise" THEN res
        ELSE IF ~Truthy(name)
             THEN IF ~Truthy(channel)
                  THEN Raised(MinderBotError("Failed to resolve channel ID",
                                             FailureContext(context_or_guild), None),
                              res.calls, res.log)
                  ELSE Returned(DiscordChannel_init(id, ChannelAttr(channel).name,
                                                    DeriveIsDm(is_dm, channel), guild, channel),
                                None, res.calls, res.log)
             ELSE Returned(DiscordChannel_init(id, name, DeriveIsDm(is_dm, channel),
                                               guild, channel),
                           None, res.calls, res.log)

\* DiscordChannel.build(id, name, is_dm, context_or_guild)
DiscordChannel_build(id, name, is_dm, context_or_guild, out) ==
    IF ~Truthy(context_or_guild)
    THEN IF ~Truthy(name)
         THEN Raised(MinderBotError("No guild/context provided", None, None), <<>>, <<>>)
         ELSE Returned(DiscordChannel_init(id, name, DeriveIsDm(is_dm, None), None, None),
                       None, <<>>, <<>>)
    ELSE DiscordChannel_build_lookup(id, name, is_dm, context_or_guild, out)

\* DiscordMember.from_member(member)
DiscordMember_from_member(member) ==
    Returned(DiscordMember_init(MemberAttr(member).id, MemberAttr(member).name,
                                MemberAttr(member).guild, member),
             None, <<>>, <<>>)

\* DiscordChannel.from_channel(channel): no _guild is passed
DiscordChannel_from_channel(channel) ==
    Returned(DiscordChannel_init(ChannelAttr(channel).id, ChannelAttr(channel).name,
                                 PyBool(IsDMChannel(channel)), None, channel),
             None, <<>>, <<>>)

\* ------------------------------------------------------------ state machine
\* last: the last call of a constructor or of resolve, with its arguments and
\* its result (res.obj is the record as it was when the call returned);
\* rec: the record the caller got from that call, as it is now (NoObj when the
\* call returned none); assigns: the attribute assignments made to rec
NoCall == [id |-> 0, name |-> None, cls |-> None, is_dm |-> None,
           context_or_guild |-> None, res |-> Returned(NoObj, None, <<>>, <<>>),
           op |-> "none", live |-> None]

\* names a caller can pass: absent, empty, or a display name
NameArgs == {None, "", "bob"}

\* is_dm values a caller can pass
IsDmArgs == {None, "True", "False"}

Init ==
    /\ last = NoCall
    /\ rec = NoObj
    /\ assigns = 0

\* the call, with what it returned or raised to the caller
Complete(call, res) == [call EXCEPT !.res = res]

MemberBuild ==
    \E id \in Ids, name \in NameArgs, cog \in Scopes :
      \E out \in GetMemberOutcomes(ScopeGuild(cog), id) :
        /\ last' = Complete([NoCall EXCEPT !.op = "build", !.cls = "DiscordMember",
                                           !.id = id, !.name = name,
                                           !.context_or_guild = cog],
                            DiscordMember_build(id, name, cog, out))
        /\ rec' = last'.res.obj
        /\ assigns' = 0

ChannelBuild ==
    \E id \in Ids, name \in NameArgs, is_dm \in IsDmArgs, cog \in Scopes :
      \E out \in GetChannelOutcomes(ScopeGuild(cog), id) :
        /\ last' = Complete([NoCall EXCEPT !.op = "build", !.cls = "DiscordChannel",
                                           !.id = id, !.name = name, !.is_dm = is_dm,
                                           !.context_or_guild = cog],
                            DiscordChannel_build(id, name, is_dm, cog, out))
        /\ rec' = last'.res.obj
        /\ assigns' = 0

MemberResolve ==
    \E id \in Ids, guild \in Guilds :
      \E out \in GetMemberOutcomes(guild, id) :
        /\ last' = Complete([NoCall EXCEPT !.op = "resolve", !.cls = "DiscordMember",
                                           !.id = id, !.context_or_guild = guild],
                            DiscordMember_resolve(id, guild, out))
        /\ rec' = last'.res.obj
        /\ assigns' = 0

ChannelResolve ==
    \E id \in Ids, guild \in Guilds :
      \E out \in GetChannelOutcomes(guild, id) :
        /\ last' = Complete([NoCall EXCEPT !.op = "resolve", !.cls = "DiscordChannel",
                                           !.id = id, !.context_or_guild = guild],
                            DiscordChannel_resolve(id, guild, out))
        /\ rec' = last'.res.obj
        /\ assigns' = 0

FromMember ==
    \E member \in Members :
        /\ last' = Complete([NoCall EXCEPT !.op = "from_member", !.cls = "DiscordMember",
                                           !.live = member],
                            DiscordMember_from_member(member))
        /\ rec' = last'.res.obj
        /\ assigns' = 0

FromChannel ==
    \E channel \in Channels :
        /\ last' = Complete([NoCall EXCEPT !.op = "from_channel", !.cls = "DiscordChannel",
                                           !.live = channel],
                            DiscordChannel_from_channel(channel))
        /\ rec' = last'.res.obj
        /\ assigns' = 0

\* values an attribute of a record can be assigned
AttrValues(cls, a) ==
    CASE a = "id"     -> Ids
      [] a = "name"   -> {"eve"}
      [] a = "is_dm"  -> {"True", "False"}
      [] a = "_guild" -> {"g1"}
      [] OTHER        -> IF cls = "DiscordMember" THEN {"alice"} ELSE {"general"}

AttrNames(cls) ==
    IF cls = "DiscordMember" THEN {"id", "name", "_guild", "_member"}
    ELSE {"id", "name", "is_dm", "_guild", "_channel"}

\* object.__setattr__(o, a, v) on an instance of a plain (not frozen) dataclass
setattr(o, a, v) == [o EXCEPT !.dict = (a :> v) @@ o.dict]

\* rec.a = v, by any holder of the record
SetAttr ==
    /\ rec.cls # None
    /\ assigns < MaxAssign
    /\ \E a \in AttrNames(rec.cls) :
         \E v \in AttrValues(rec.cls, a) :
           rec' = setattr(rec, a, v)
    /\ assigns' = assigns + 1
    /\ last' = last

Next ==
    \/ MemberBuild
    \/ ChannelBuild
    \/ MemberResolve
    \/ ChannelResolve
    \/ FromMember
    \/ FromChannel
    \/ SetAttr

Spec == Init /\ [][Next]_vars

\* ------------------------------------------------- vocabulary of the claims
\* the accessors, by the class of the record
Mention(o) ==
    IF o.cls = "DiscordMember" THEN DiscordMember_mention(o) ELSE DiscordChannel_mention(o)

GuildOf(o) ==
    IF o.cls = "DiscordMember" THEN DiscordMember_guild(o) ELSE DiscordChannel_guild(o)

LiveRef(o) ==
    IF o.cls = "DiscordMember" THEN DiscordMember_member(o) ELSE DiscordChannel_channel(o)

\* name, mention and guild of a live object of the class's kind
LiveName(cls, h) == IF cls = "DiscordMember" THEN MemberAttr(h).name ELSE ChannelAttr(h).name

LiveMention(cls, h) ==
    IF cls = "DiscordMember" THEN MemberAttr(h).mention ELSE ChannelAttr(h).mention

LiveGuild(cls, h) == IF cls = "DiscordMember" THEN MemberAttr(h).guild ELSE ChannelAttr(h).guild

\* the last call made a provider lookup, and what the provider did
Looked == last.res.calls # <<>>

Outcome == last.res.calls[1].out

Found == Looked /\ Outcome.kind = "return" /\ Outcome.val # None

NotFound ==
    /\ Looked
    /\ \/ Outcome.kind = "return" /\ Outcome.val = None
       \/ Outcome.kind = "raise" /\ Outcome.val = "NotFound"

OtherFailure == Looked /\ Outcome.kind = "raise" /\ Outcome.val # "NotFound"

NameGiven == last.name # None /\ last.name # ""

\* the last call was a constructor and handed a record to the caller
Constructed ==
    /\ last.op \in {"build", "from_member", "from_channel"}
    /\ last.res.status = "return"

\* C1: whenever the provider lookup of a build returns a live object, build
\* succeeds, the record's mention is the live object's mention string, and the
\* record's name is the live object's name when no name was supplied.
C1_MentionOfLiveObject ==
    (last.op = "build" /\ Found) =>
        /\ last.res.status = "return"
        /\ Mention(last.res.obj) = LiveMention(last.cls, Outcome.val)
        /\ ~NameGiven => getattr(last.res.obj, "name") = LiveName(last.cls, Outcome.val)

\* C2: when the provider lookup made by resolve (called directly or by build)
\* fails with anything but "not found", the call raises an error that carries
\* the original failure as its cause, and no record or value is returned,
\* whether or not a name was supplied.
C2_OtherFailureIsRaised ==
    (last.op \in {"build", "resolve"} /\ OtherFailure) =>
        /\ last.res.status = "raise"
        /\ last.res.exc.cls = "MinderBotError"
        /\ last.res.exc.base_exception = Outcome.val
        /\ last.res.exc.chained = Outcome.val
        /\ last.res.obj = NoObj
        /\ rec = NoObj

C2_Witness ==
    /\ last.op = "build"
    /\ NameGiven
    /\ OtherFailure
    /\ last.res.status = "raise"
    /\ last.res.exc.base_exception = "Forbidden"

\* C3: when the provider reports "not found" and no name is given, build
\* raises and returns no record; the error carries context_or_guild when that
\* was a Context, and no context when it was a bare guild.
C3_NotFoundNoNameRaises ==
    (last.op = "build" /\ NotFound /\ ~NameGiven) =>
        /\ last.res.status = "raise"
        /\ last.res.exc.cls = "MinderBotError"
        /\ last.res.obj = NoObj
        /\ rec = NoObj
        /\ IsContext(last.context_or_guild)
              => last.res.exc.context = last.context_or_guild
        /\ ~IsContext(last.context_or_guild) => last.res.exc.context = None

C3_Witness ==
    /\ last.op = "build"
    /\ NotFound
    /\ ~NameGiven
    /\ last.context_or_guild = "ctx1"
    /\ last.res.status = "raise"
    /\ last.res.exc.context = "ctx1"

\* C4: when the provider reports "not found" but a non-empty name is given,
\* build returns a record with the supplied name, an absent live reference,
\* the scope that was used for the lookup, and mention equal to the name.
C4_NotFoundWithNameBuilds ==
    (last.op = "build" /\ NotFound /\ NameGiven) =>
        /\ last.res.status = "return"
        /\ getattr(last.res.obj, "name") = last.name
        /\ LiveRef(last.res.obj) = None
        /\ GuildOf(last.res.obj) = last.res.calls[1].guild
        /\ Mention(last.res.obj) = last.name

\* the classes of the errors build and resolve raise on lookup failures
LookupFailureClasses ==
    { DiscordMember_build(1, None, "g1", [kind |-> "return", val |-> None]).exc.cls,
      DiscordChannel_build(1, None, None, "g1", [kind |-> "return", val |-> None]).exc.cls,
      DiscordMember_resolve(1, "g1", [kind |-> "raise", val |-> "Forbidden"]).exc.cls,
      DiscordChannel_resolve(1, "g1", [kind |-> "raise", val |-> "Forbidden"]).exc.cls }

NoScopeNoName == last.op = "build" /\ last.context_or_guild = None /\ ~NameGiven

\* C5 as stated: build with neither a scope nor a name fails, before any
\* provider lookup, with an error of a kind distinct from the kind raised on
\* lookup failures.
C5_DistinctErrorKind ==
    NoScopeNoName =>
        /\ last.res.status = "raise"
        /\ last.res.calls = <<>>
        /\ last.res.exc.cls \notin LookupFailureClasses

\* C5 as amended: build with neither a scope nor a name fails, before any
\* provider lookup, with a MinderBotError: the same kind as the error raised
\* on lookup failures, from which it differs by its message only.
C5_NoScopeNoNameRaises ==
    NoScopeNoName =>
        /\ last.res.status = "raise"
        /\ last.res.calls = <<>>
        /\ last.res.obj = NoObj
        /\ last.res.exc.cls = "MinderBotError"
        /\ last.res.exc.cls \in LookupFailureClasses
        /\ last.res.exc.msg = "No guild/context provided"
        /\ last.res.exc.context = None
        /\ last.res.exc.base_exception = None

C5_Witness ==
    /\ NoScopeNoName
    /\ last.cls = "DiscordMember"
    /\ last.name = None
    /\ last.res.status = "raise"

\* C6: once a record has been constructed, each of its fields has, in every
\* later state, the value it had when the record was created.
C6_RecordNeverChanges ==
    rec.cls # None =>
        /\ DOMAIN rec.dict = DOMAIN last.res.obj.dict
        /\ \A a \in DOMAIN rec.dict : rec.dict[a] = last.res.obj.dict[a]

\* C7: every record returned by build, from_member or from_channel has a
\* non-empty name, whatever the live object's name is.
C7_NameNeverEmpty ==
    Constructed => Truthy(getattr(last.res.obj, "name"))

\* what the constructor call passed as _guild and as the live reference
SuppliedScope ==
    IF last.op = "build"
    THEN (IF last.context_or_guild = None THEN None ELSE ScopeGuild(last.context_or_guild))
    ELSE IF last.op = "from_member" THEN MemberAttr(last.live).guild ELSE None

SuppliedLive ==
    IF last.op = "build" THEN (IF Found THEN Outcome.val ELSE None) ELSE last.live

\* C8: the guild accessor of a record returns the scope supplied at
\* construction; otherwise the scope of the live object, when a live reference
\* is present and has a scope; otherwise nothing.
C8_GuildAccessor ==
    Constructed =>
        GuildOf(last.res.obj) =
            IF SuppliedScope # None THEN SuppliedScope
            ELSE IF SuppliedLive # None /\ LiveGuild(last.cls, SuppliedLive) # None
                 THEN LiveGuild(last.cls, SuppliedLive)
                 ELSE None

\* C9 as stated: a build makes exactly one provider lookup when a
\* scope_context is supplied, whatever its outcome, and none when it is absent.
C9_OneLookupPerScopedBuild ==
    last.op = "build" =>
        Len(last.res.calls) = IF last.context_or_guild # None THEN 1 ELSE 0

\* C9 as amended: a build makes exactly one provider lookup, of its id in the
\* guild of its scope_context, when the scope_context is a guild or a context
\* that has a guild, whatever the outcome; it makes none when scope_context is
\* absent or is a context without a guild.
C9_OneLookupPerGuild ==
    last.op = "build" =>
        IF last.context_or_guild # None /\ ScopeGuild(last.context_or_guild) # None
        THEN /\ Len(last.res.calls) = 1
             /\ last.res.calls[1].fn =
                   (IF last.cls = "DiscordMember" THEN "get_member" ELSE "get_channel")
             /\ last.res.calls[1].guild = ScopeGuild(last.context_or_guild)
             /\ last.res.calls[1].id = last.id
        ELSE last.res.calls = <<>>

C9_Witness ==
    /\ last.op = "build"
    /\ last.cls = "DiscordChannel"
    /\ last.context_or_guild = "ctx1"
    /\ OtherFailure
    /\ Len(last.res.calls) = 1

\* C10: from_channel sets is_dm to whether the live channel is a DM channel;
\* channel build keeps an is_dm that was supplied, even when the live channel's
\* type disagrees, derives it from the resolved live channel's type when none
\* was supplied, and leaves it unset when none was supplied and no live
\* channel was resolved.
C10_IsDmAtConstruction ==
    /\ (last.op = "from_channel" /\ Constructed) =>
          getattr(last.res.obj, "is_dm") = PyBool(IsDMChannel(last.live))
    /\ (last.op = "build" /\ last.cls = "DiscordChannel" /\ Constructed) =>
          getattr(last.res.obj, "is_dm") =
             IF last.is_dm # None THEN last.is_dm
             ELSE IF Found THEN PyBool(IsDMChannel(Outcome.val))
             ELSE None

C10_Witness ==
    /\ last.op = "build"
    /\ last.cls = "DiscordChannel"
    /\ Constructed
    /\ last.is_dm = "False"
    /\ Found
    /\ IsDMChannel(Outcome.val)
    /\ getattr(last.res.obj, "is_dm") = "False"

====
